---- MODULE Spec2Model ----
(***************************************************************************)
(* Polyair: a GPU line renderer exposed as a block extension.              *)
(*                                                                         *)
(* The repository holds two variants of the extension class:               *)
(*   "current"  src/polyair-extension.js                                   *)
(*   "older"    src/unnamed/part_000                                       *)
(* The host runs one instance of each side by side in the same browser     *)
(* environment and dispatches every block to both.                         *)
(*                                                                         *)
(* Numbers are integers.  A colour channel is the exact fraction           *)
(* num/den.  JavaScript's undefined and NaN in numeric positions are the   *)
(* two integers below; null/undefined in object positions is NULL.         *)
(***************************************************************************)
EXTENDS Integers, FiniteSets, Sequences, TLC

Variants == {"current", "older"}

NULL == [null |-> TRUE]
undefined == 0 - 1000001
NaN == 0 - 1000002

(* bounds of the model *)
MaxLines == 1

SpriteIds == {"A", "B"}
PresetNames == {"480p", "720p", "1080p", "2K", "4K"}
QualityArgs == PresetNames \cup {"bogus", "constructor"}
ColorArgs == {<<300, 0 - 10, 128>>}
WidthArgs == {0 - 2, 0, 1, 3}
LineArgs == {<<0, 0, 100, 100>>, <<0 - 50, 20, 0, 0>>}

(* names every object inherits from Object.prototype *)
ObjectPrototypeKeys == {"constructor", "toString", "valueOf", "hasOwnProperty", "__proto__"}

(***************************************************************************)
(* The browser environment the constructor runs in.                        *)
(***************************************************************************)
Environments ==
  {e \in [document : BOOLEAN, webgl2 : BOOLEAN, webgl : BOOLEAN,
          vertexOK : BOOLEAN, fragmentOK : BOOLEAN, linkOK : BOOLEAN] :
     /\ e.webgl2 => e.webgl
     /\ e.webgl => e.document
     /\ (e.vertexOK \/ e.fragmentOK) => e.webgl
     /\ e.linkOK => (e.vertexOK /\ e.fragmentOK)
     /\ (e.webgl /\ ~e.webgl2) => e.linkOK}

(***************************************************************************)
(* Arithmetic helpers                                                      *)
(***************************************************************************)
Max(a, b) == IF a >= b THEN a ELSE b
Min(a, b) == IF a <= b THEN a ELSE b

RECURSIVE GCD(_, _)
GCD(a, b) == IF b = 0 THEN a ELSE GCD(b, a % b)

(* n / d as an exact fraction in lowest terms, n >= 0, d > 0 *)
Div(n, d) == LET g == GCD(n, d) IN [num |-> n \div g, den |-> d \div g]

(* JavaScript number arithmetic on values that may be undefined or NaN *)
IsNum(x) == x # undefined /\ x # NaN
Half(x) == IF IsNum(x) THEN x \div 2 ELSE NaN
Plus(a, b) == IF IsNum(a) /\ IsNum(b) THEN a + b ELSE NaN
Minus(a, b) == IF IsNum(a) /\ IsNum(b) THEN a - b ELSE NaN

(* WebIDL conversion of a JavaScript value to an unsigned long / GLsizei *)
ToLong(x) == IF IsNum(x) THEN x ELSE 0

Transparent == <<0, 0, 0, 0>>

(* env      the browser environment
   inst     the fields of each variant's extension instance
   call     the block the host ran last, with its argument object
   outcome  what that call did in each variant
   flagLog  per sprite, the last enable/disable block the host ran for it *)
VARIABLES env, inst, call, outcome, flagLog

vars == <<env, inst, call, outcome, flagLog>>

(***************************************************************************)
(* Results of running a handler: the instance afterwards, whether the      *)
(* handler threw to the host, the value it returned and the draw calls it  *)
(* issued.  Returned values are tagged with their JavaScript type.         *)
(***************************************************************************)
Undef == [undefined |-> TRUE]
Bool(b) == [boolean |-> b]
Num(n) == [number |-> n]

Return(s, ret, draws) == [self |-> s, threw |-> FALSE, ret |-> ret, draws |-> draws]
Throw(s) == [self |-> s, threw |-> TRUE, ret |-> Undef, draws |-> <<>>]

(* the argument object of a block call; unused slots keep these values *)
NoArgs == [QUALITY |-> "", R |-> 0, G |-> 0, B |-> 0, WIDTH |-> 0,
           X1 |-> 0, Y1 |-> 0, X2 |-> 0, Y2 |-> 0, target |-> ""]

(***************************************************************************)
(* The graphics context and the canvas                                     *)
(***************************************************************************)
(* document.createElement('canvas') followed by the two size assignments *)
createCanvas(w, h) == [width |-> ToLong(w), height |-> ToLong(h),
                       background |-> Transparent, lines |-> {}]

(* a fresh context of canvas c: default WebGL state *)
newContext(version, c) ==
  [version |-> version, blend |-> FALSE, blendFunc |-> <<"ONE", "ZERO">>,
   clearColor |-> Transparent, viewport |-> <<0, 0, c.width, c.height>>,
   program |-> NULL, buffers |-> 0]

(* canvas.getContext(kind, ...) in environment e *)
getContext(e, kind, c) ==
  IF kind = "webgl2" THEN (IF e.webgl2 THEN newContext("webgl2", c) ELSE NULL)
  ELSE (IF e.webgl THEN newContext("webgl", c) ELSE NULL)

(* gl.clearColor(0,0,0,0); gl.clear(COLOR_BUFFER_BIT) on an instance with a context *)
clearTransparent(s) ==
  LET g == [s.gl EXCEPT !.clearColor = Transparent]
  IN [s EXCEPT !.gl = g,
               !.glCanvas = [s.glCanvas EXCEPT !.background = g.clearColor, !.lines = {}]]

(***************************************************************************)
(* compileShader: the shader object, or null when compilation fails        *)
(***************************************************************************)
compileShader(e, type) ==
  LET ok == IF type = "VERTEX_SHADER" THEN e.vertexOK ELSE e.fragmentOK
  IN IF ok THEN [shader |-> type] ELSE NULL

(***************************************************************************)
(* initShaders                                                             *)
(***************************************************************************)
initShaders(v, s, e) ==
  LET vertexShader == compileShader(e, "VERTEX_SHADER")
      fragmentShader == compileShader(e, "FRAGMENT_SHADER")
      program == [linked |-> e.linkOK, transform |-> (v = "older")]
      s1 == [s EXCEPT !.shaderProgram = program]
      info == [position |-> 0, color |-> 1, resolution |-> "u_resolution",
               transform |-> IF v = "older" THEN "u_transform" ELSE ""]
  IN IF vertexShader = NULL \/ fragmentShader = NULL THEN s
     ELSE IF ~program.linked THEN s1
     ELSE IF v = "older"
          THEN [s1 EXCEPT !.gl = [s1.gl EXCEPT !.program = program], !.programInfo = info]
          ELSE [s1 EXCEPT !.programInfo = info]

(***************************************************************************)
(* initWebGL.  The current variant wraps the body in try/catch; the older  *)
(* one lets the exception leave the constructor.                           *)
(***************************************************************************)
initWebGL(v, s, e) ==
  IF ~e.document
  THEN (IF v = "current" THEN Return(s, Undef, <<>>) ELSE Throw(s))
  ELSE
    LET canvas == createCanvas(s.resolution.width, s.resolution.height)
        first == getContext(e, "webgl2", canvas)
        gl == IF first = NULL THEN getContext(e, "webgl", canvas) ELSE first
        s1 == [s EXCEPT !.glCanvas = canvas, !.gl = gl]
    IN IF gl = NULL THEN Return(s1, Undef, <<>>)
       ELSE LET s2 == initShaders(v, s1, e)
                s3 == [s2 EXCEPT !.gl = [s2.gl EXCEPT !.blend = TRUE,
                                    !.blendFunc = <<"SRC_ALPHA", "ONE_MINUS_SRC_ALPHA">>]]
            IN Return(clearTransparent(s3), Undef, <<>>)

(***************************************************************************)
(* constructor, then Scratch.extensions.register(new PolyairExtension()):  *)
(* an instance whose constructor threw is never registered.                *)
(***************************************************************************)
constructor(v, e) ==
  LET s0 == [registered |-> FALSE,
             glCanvas |-> NULL, gl |-> NULL,
             resolution |-> [width |-> 854, height |-> 480],
             targetResolution |-> "480p",
             gpuSprites |-> {},
             shaderProgram |-> NULL, programInfo |-> NULL,
             penColor |-> [r |-> Div(1, 1), g |-> Div(1, 1), b |-> Div(1, 1), a |-> Div(1, 1)],
             penWidth |-> 1]
      r == initWebGL(v, s0, e)
  IN [r.self EXCEPT !.registered = ~r.threw]

(***************************************************************************)
(* Flag registry                                                           *)
(***************************************************************************)
(* mutant: enabling GPU rendering resets the pen width *)
enableGPURendering_ResetsPen(v, s, args) ==
  Return([s EXCEPT !.gpuSprites = s.gpuSprites \cup {args.target}, !.penWidth = 1],
         Undef, <<>>)

enableGPURendering(v, s, args) ==
  Return([s EXCEPT !.gpuSprites = s.gpuSprites \cup {args.target}], Undef, <<>>)

(* mutant: disabling one sprite empties the registry *)
disableGPURendering_ClearsAll(v, s, args) ==
  Return([s EXCEPT !.gpuSprites = {}], Undef, <<>>)

disableGPURendering(v, s, args) ==
  Return([s EXCEPT !.gpuSprites = s.gpuSprites \ {args.target}], Undef, <<>>)

isGPUEnabled(v, s, args) ==
  Return(s, Bool(args.target \in s.gpuSprites), <<>>)

(***************************************************************************)
(* setResolution                                                           *)
(***************************************************************************)
(* resolutions[quality]: an own entry of the table, a property inherited  *)
(* from Object.prototype (an object with no width or height), or nothing  *)
resolutions(quality) ==
  CASE quality = "480p" -> [width |-> 854, height |-> 480]
    [] quality = "720p" -> [width |-> 1280, height |-> 720]
    [] quality = "1080p" -> [width |-> 1920, height |-> 1080]
    [] quality = "2K" -> [width |-> 2560, height |-> 1440]
    [] quality = "4K" -> [width |-> 3840, height |-> 2160]
    [] quality \in ObjectPrototypeKeys -> [width |-> undefined, height |-> undefined]
    [] OTHER -> NULL

(* resolutions[quality] || resolutions['1080p'] *)
lookupResolution(quality) ==
  IF resolutions(quality) = NULL THEN resolutions("1080p") ELSE resolutions(quality)

(* mutant: resizing the canvas resets the pen colour to opaque white *)
resizeCanvas_ResetsPen(s) ==
  [s EXCEPT !.glCanvas = [s.glCanvas EXCEPT !.width = ToLong(s.resolution.width),
                                            !.height = ToLong(s.resolution.height)],
            !.penColor = [r |-> Div(1, 1), g |-> Div(1, 1), b |-> Div(1, 1), a |-> Div(1, 1)]]

(* this.glCanvas.width = ...; this.glCanvas.height = ... *)
resizeCanvas(s) ==
  [s EXCEPT !.glCanvas = [s.glCanvas EXCEPT !.width = ToLong(s.resolution.width),
                                            !.height = ToLong(s.resolution.height)]]

(* mutant: the viewport is updated but the surface is not cleared *)
resetViewport_NoClear(s) ==
  [s EXCEPT !.gl = [s.gl EXCEPT !.viewport =
     <<0, 0, ToLong(s.resolution.width), ToLong(s.resolution.height)>>]]

(* this.gl.viewport(0, 0, width, height) and the clear that follows it *)
resetViewport(s) ==
  clearTransparent([s EXCEPT !.gl = [s.gl EXCEPT !.viewport =
     <<0, 0, ToLong(s.resolution.width), ToLong(s.resolution.height)>>]])

setResolution(v, s, args) ==
  LET quality == args.QUALITY
      s1 == [s EXCEPT !.resolution = lookupResolution(quality),
                      !.targetResolution = quality]
  IN IF v = "current"
     THEN LET s2 == IF s1.glCanvas # NULL THEN resizeCanvas(s1) ELSE s1
              s3 == IF s2.gl # NULL THEN resetViewport(s2) ELSE s2
          IN Return(s3, Undef, <<>>)
     ELSE IF s1.glCanvas = NULL THEN Throw(s1)
          ELSE IF s1.gl = NULL THEN Throw(resizeCanvas(s1))
          ELSE Return(resetViewport(resizeCanvas(s1)), Undef, <<>>)

getResolutionWidth(v, s, args) == Return(s, Num(s.resolution.width), <<>>)

getResolutionHeight(v, s, args) == Return(s, Num(s.resolution.height), <<>>)

(***************************************************************************)
(* Draw state                                                              *)
(***************************************************************************)
(* mutant: the lower clamp is missing *)
setPenColor_NoLowerClamp(v, s, args) ==
  LET r == Div(Min(255, args.R), 255)
      g == Div(Min(255, args.G), 255)
      b == Div(Min(255, args.B), 255)
  IN Return([s EXCEPT !.penColor = [r |-> r, g |-> g, b |-> b, a |-> Div(1, 1)]],
            Undef, <<>>)

setPenColor(v, s, args) ==
  LET r == Div(Max(0, Min(255, args.R)), 255)
      g == Div(Max(0, Min(255, args.G)), 255)
      b == Div(Max(0, Min(255, args.B)), 255)
  IN Return([s EXCEPT !.penColor = [r |-> r, g |-> g, b |-> b, a |-> Div(1, 1)]],
            Undef, <<>>)

(* mutant: the minimum is 0 instead of 1 *)
setPenWidth_MinZero(v, s, args) ==
  Return([s EXCEPT !.penWidth = Max(0, args.WIDTH)], Undef, <<>>)

setPenWidth(v, s, args) ==
  Return([s EXCEPT !.penWidth = Max(1, args.WIDTH)], Undef, <<>>)

(***************************************************************************)
(* drawGPULine                                                             *)
(***************************************************************************)
(* where the vertex stage and the viewport put pixel-space coordinate p,  *)
(* for resolution uniform u and viewport extent vp                        *)
toWindow(p, u, vp) ==
  IF IsNum(p) /\ IsNum(u) /\ u # 0 THEN (p * vp) \div u ELSE NaN

(* the identity matrix part_000 uploads as u_transform, column by column *)
IdentityTransform == <<1, 0, 0, 0, 1, 0, 0, 0, 1>>

Times(a, b) == IF IsNum(a) /\ IsNum(b) THEN a * b ELSE NaN

(* vertex stage of part_000: (u_transform * vec3(a_position, 1.0)).xy;    *)
(* the program of polyair-extension.js has no u_transform (m = <<>>)       *)
transformPosition(m, x, y) ==
  IF m = <<>> THEN <<x, y>>
  ELSE <<Plus(Plus(Times(m[1], x), Times(m[4], y)), m[7]),
         Plus(Plus(Times(m[2], x), Times(m[5], y)), m[8])>>

(* gl.drawArrays(gl.LINES, 0, 2) with the given inputs: the draw call and *)
(* the canvas after rasterizing it                                        *)
drawArrays(s, vertices, colors, uResolution, uTransform, lineWidth) ==
  LET p1 == transformPosition(uTransform, vertices[1], vertices[2])
      p2 == transformPosition(uTransform, vertices[3], vertices[4])
      wx1 == toWindow(p1[1], uResolution[1], s.gl.viewport[3])
      wy1 == toWindow(p1[2], uResolution[2], s.gl.viewport[4])
      wx2 == toWindow(p2[1], uResolution[1], s.gl.viewport[3])
      wy2 == toWindow(p2[2], uResolution[2], s.gl.viewport[4])
      line == [from |-> <<wx1, wy1>>, to |-> <<wx2, wy2>>, color |-> colors[1]]
      visible == IsNum(wx1) /\ IsNum(wy1) /\ IsNum(wx2) /\ IsNum(wy2)
      canvas == IF visible
                THEN [s.glCanvas EXCEPT !.lines = s.glCanvas.lines \cup {line}]
                ELSE s.glCanvas
  IN [self |-> [s EXCEPT !.glCanvas = canvas],
      draw |-> [mode |-> "LINES", first |-> 0, count |-> 2,
                vertices |-> vertices, colors |-> colors,
                resolution |-> uResolution, transform |-> uTransform,
                lineWidth |-> lineWidth, program |-> s.gl.program]]

(* mutant: only the position buffer is deleted after the draw call *)
drawGPULine_LeaksColorBuffer(v, s, args) ==
  IF s.gl = NULL \/ s.shaderProgram = NULL THEN Return(s, Undef, <<>>)
  ELSE IF s.programInfo = NULL THEN Throw(s)
  ELSE Return([s EXCEPT !.gl = [s.gl EXCEPT !.buffers = @ + 2 - 1]], Undef, <<>>)

(* mutant: a draw on an instance without a usable program builds one *)
drawGPULine_RetriesInit(v, s, args) ==
  IF s.gl = NULL THEN Return(s, Undef, <<>>)
  ELSE IF s.programInfo = NULL
       THEN Return(initShaders(v, s, [document |-> TRUE, webgl2 |-> TRUE, webgl |-> TRUE,
                                      vertexOK |-> TRUE, fragmentOK |-> TRUE,
                                      linkOK |-> TRUE]), Undef, <<>>)
       ELSE Return(s, Undef, <<>>)

drawGPULine(v, s, args) ==
  IF s.gl = NULL \/ s.shaderProgram = NULL THEN Return(s, Undef, <<>>)
  ELSE
    LET (* gl.useProgram: an unlinked program is rejected with a GL error *)
        s1 == IF s.shaderProgram.linked
              THEN [s EXCEPT !.gl = [s.gl EXCEPT !.program = s.shaderProgram]]
              ELSE s
    IN IF s1.programInfo = NULL THEN Throw(s1)
       ELSE
         LET uResolution == <<s1.resolution.width, s1.resolution.height>>
             uTransform == IF v = "older" THEN IdentityTransform ELSE <<>>
             centerX == Half(s1.resolution.width)
             centerY == Half(s1.resolution.height)
             vertices == <<Plus(centerX, args.X1), Minus(centerY, args.Y1),
                           Plus(centerX, args.X2), Minus(centerY, args.Y2)>>
             c == <<s1.penColor.r, s1.penColor.g, s1.penColor.b, s1.penColor.a>>
             colors == <<c, c>>
             (* createBuffer twice *)
             s2 == [s1 EXCEPT !.gl = [s1.gl EXCEPT !.buffers = @ + 2]]
             d == drawArrays(s2, vertices, colors, uResolution, uTransform, s2.penWidth)
             (* deleteBuffer twice *)
             s3 == [d.self EXCEPT !.gl = [d.self.gl EXCEPT !.buffers = @ - 2]]
         IN Return(s3, Undef, <<d.draw>>)

(* mutant: the context check is missing *)
clearGPUCanvas_NoGuard(v, s, args) ==
  IF s.gl = NULL THEN Throw(s) ELSE Return(clearTransparent(s), Undef, <<>>)

clearGPUCanvas(v, s, args) ==
  IF s.gl = NULL THEN Return(s, Undef, <<>>)
  ELSE Return(clearTransparent(s), Undef, <<>>)

(***************************************************************************)
(* The host: constructs and registers both variants in one environment,   *)
(* then runs blocks one at a time, each to completion.                     *)
(***************************************************************************)
Init ==
  /\ env \in Environments
  /\ inst = [v \in Variants |-> constructor(v, env)]
  /\ call = [op |-> "constructor", args |-> NoArgs]
  /\ outcome = [v \in Variants |->
                  [called |-> TRUE, threw |-> ~constructor(v, env).registered,
                   ret |-> Undef, draws |-> <<>>]]
  /\ flagLog = [id \in SpriteIds |-> "none"]

(* one block call: r[v] is the result of the block's implementation in    *)
(* variant v; the host can only call an instance that was registered      *)
Dispatch(op, args, r) ==
  /\ inst' = [v \in Variants |-> IF inst[v].registered THEN r[v].self ELSE inst[v]]
  /\ outcome' = [v \in Variants |->
                   IF inst[v].registered
                   THEN [called |-> TRUE, threw |-> r[v].threw,
                         ret |-> r[v].ret, draws |-> r[v].draws]
                   ELSE [called |-> FALSE, threw |-> FALSE,
                         ret |-> Undef, draws |-> <<>>]]
  /\ call' = [op |-> op, args |-> args]
  /\ UNCHANGED env

EnableGPURendering ==
  \E id \in SpriteIds :
    LET args == [NoArgs EXCEPT !.target = id]
    IN /\ Dispatch("enableGPURendering", args,
                   [v \in Variants |-> enableGPURendering(v, inst[v], args)])
       /\ flagLog' = [flagLog EXCEPT ![id] = "enable"]

DisableGPURendering ==
  \E id \in SpriteIds :
    LET args == [NoArgs EXCEPT !.target = id]
    IN /\ Dispatch("disableGPURendering", args,
                   [v \in Variants |-> disableGPURendering(v, inst[v], args)])
       /\ flagLog' = [flagLog EXCEPT ![id] = "disable"]

IsGPUEnabled ==
  \E id \in SpriteIds :
    LET args == [NoArgs EXCEPT !.target = id]
    IN /\ Dispatch("isGPUEnabled", args,
                   [v \in Variants |-> isGPUEnabled(v, inst[v], args)])
       /\ UNCHANGED flagLog

SetResolution ==
  \E q \in QualityArgs :
    LET args == [NoArgs EXCEPT !.QUALITY = q]
    IN /\ Dispatch("setResolution", args,
                   [v \in Variants |-> setResolution(v, inst[v], args)])
       /\ UNCHANGED flagLog

GetResolutionWidth ==
  /\ Dispatch("getResolutionWidth", NoArgs,
              [v \in Variants |-> getResolutionWidth(v, inst[v], NoArgs)])
  /\ UNCHANGED flagLog

GetResolutionHeight ==
  /\ Dispatch("getResolutionHeight", NoArgs,
              [v \in Variants |-> getResolutionHeight(v, inst[v], NoArgs)])
  /\ UNCHANGED flagLog

SetPenColor ==
  \E c \in ColorArgs :
    LET args == [NoArgs EXCEPT !.R = c[1], !.G = c[2], !.B = c[3]]
    IN /\ Dispatch("setPenColor", args,
                   [v \in Variants |-> setPenColor(v, inst[v], args)])
       /\ UNCHANGED flagLog

SetPenWidth ==
  \E w \in WidthArgs :
    LET args == [NoArgs EXCEPT !.WIDTH = w]
    IN /\ Dispatch("setPenWidth", args,
                   [v \in Variants |-> setPenWidth(v, inst[v], args)])
       /\ UNCHANGED flagLog

(* the surface holds at most MaxLines distinct lines between clears *)
CanvasHasRoom(s) ==
  IF s.glCanvas = NULL THEN TRUE ELSE Cardinality(s.glCanvas.lines) < MaxLines

DrawGPULine ==
  \E l \in LineArgs :
    LET args == [NoArgs EXCEPT !.X1 = l[1], !.Y1 = l[2], !.X2 = l[3], !.Y2 = l[4]]
    IN /\ \A v \in Variants : CanvasHasRoom(inst[v])
       /\ Dispatch("drawGPULine", args,
                   [v \in Variants |-> drawGPULine(v, inst[v], args)])
       /\ UNCHANGED flagLog

ClearGPUCanvas ==
  /\ Dispatch("clearGPUCanvas", NoArgs,
              [v \in Variants |-> clearGPUCanvas(v, inst[v], NoArgs)])
  /\ UNCHANGED flagLog

Next ==
  \/ EnableGPURendering
  \/ DisableGPURendering
  \/ IsGPUEnabled
  \/ SetResolution
  \/ GetResolutionWidth
  \/ GetResolutionHeight
  \/ SetPenColor
  \/ SetPenWidth
  \/ DrawGPULine
  \/ ClearGPUCanvas

Spec == Init /\ [][Next]_vars

(***************************************************************************)
(* Vocabulary of the properties                                            *)
(***************************************************************************)
(* Ready: context obtained and program linked; otherwise Degraded *)
Ready(s) ==
  IF s.gl = NULL \/ s.shaderProgram = NULL THEN FALSE
  ELSE s.shaderProgram.linked /\ s.programInfo # NULL

(* the environment gave a context and a shader stage or the link failed *)
ShaderInitFailed == env.webgl /\ ~(env.vertexOK /\ env.fragmentOK /\ env.linkOK)

(* the environment has a document but gave no context, not even the fallback *)
NoContextObtained == env.document /\ ~env.webgl2 /\ ~env.webgl

(* the preset table of the specification *)
PresetWidth(name) ==
  CASE name = "480p" -> 854 [] name = "720p" -> 1280 [] name = "2K" -> 2560
    [] name = "4K" -> 3840 [] OTHER -> 1920

PresetHeight(name) ==
  CASE name = "480p" -> 480 [] name = "720p" -> 720 [] name = "2K" -> 1440
    [] name = "4K" -> 2160 [] OTHER -> 1080

SurfaceTransparent(s) ==
  s.glCanvas.background = Transparent /\ s.glCanvas.lines = {}

(***************************************************************************)
(* C1: if shader initialization failed at any stage (vertex compile,       *)
(* fragment compile or link), the program is not usable and every later    *)
(* drawGPULine returns without throwing and without issuing a draw call.   *)
(***************************************************************************)
C1_FailedShadersDrawIsNoOp ==
  ShaderInitFailed =>
    \A v \in Variants :
      /\ ~Ready(inst[v])
      /\ (call.op = "drawGPULine" /\ outcome[v].called) =>
           (~outcome[v].threw /\ outcome[v].draws = <<>>)

(***************************************************************************)
(* C2: after setResolution(name) the getters return the preset table's     *)
(* pair for the five preset names and 1920 and 1080 for every other name.  *)
(***************************************************************************)
C2_GettersMatchPresetTable ==
  \A v \in Variants :
    /\ (call.op = "getResolutionWidth" /\ outcome[v].called) =>
         outcome[v].ret = Num(PresetWidth(inst[v].targetResolution))
    /\ (call.op = "getResolutionHeight" /\ outcome[v].called) =>
         outcome[v].ret = Num(PresetHeight(inst[v].targetResolution))

(***************************************************************************)
(* C3: whenever a surface exists, its pixel width and height equal the     *)
(* active Resolution's width and height.                                   *)
(***************************************************************************)
C3_SurfaceMatchesResolution ==
  \A v \in Variants :
    IF inst[v].glCanvas = NULL THEN TRUE
    ELSE /\ inst[v].glCanvas.width = inst[v].resolution.width
         /\ inst[v].glCanvas.height = inst[v].resolution.height

(***************************************************************************)
(* C4: when no graphics context was obtained, drawGPULine and              *)
(* clearGPUCanvas never throw and leave the surface's contents and         *)
(* dimensions as they were.                                                *)
(***************************************************************************)
C4_NoContextDrawAndClearAreNoOps ==
  [][(NoContextObtained /\ call'.op \in {"drawGPULine", "clearGPUCanvas"}) =>
       \A v \in Variants :
         /\ outcome'[v].called
         /\ ~outcome'[v].threw
         /\ outcome'[v].draws = <<>>
         /\ inst'[v].glCanvas = inst[v].glCanvas]_vars

C4_Witness ==
  /\ NoContextObtained
  /\ call.op = "drawGPULine"
  /\ call.args.X2 = 100
  /\ inst["current"].targetResolution = "4K"
  /\ inst["current"].glCanvas # NULL

(***************************************************************************)
(* C5: without a graphics context, setResolution(name) raises nothing to   *)
(* the host and still replaces Resolution with the preset's dimensions.    *)
(***************************************************************************)
C5_NoContextSetResolutionIsSilent ==
  \A v \in Variants :
    (/\ call.op = "setResolution"
     /\ call.args.QUALITY \in PresetNames
     /\ outcome[v].called
     /\ inst[v].gl = NULL) =>
       /\ ~outcome[v].threw
       /\ inst[v].resolution = [width |-> PresetWidth(call.args.QUALITY),
                                height |-> PresetHeight(call.args.QUALITY)]

(***************************************************************************)
(* C6: readiness is decided during construction and never changes: no      *)
(* block makes a Degraded instance Ready or a Ready one Degraded, and the  *)
(* context and the shader program are never replaced.                      *)
(***************************************************************************)
C6_ReadinessNeverChanges ==
  [][\A v \in Variants :
       /\ Ready(inst'[v]) = Ready(inst[v])
       /\ inst'[v].shaderProgram = inst[v].shaderProgram
       /\ inst'[v].programInfo = inst[v].programInfo
       /\ (inst'[v].gl = NULL) = (inst[v].gl = NULL)]_vars

C6_Witness ==
  /\ ShaderInitFailed
  /\ ~Ready(inst["current"])
  /\ inst["current"].targetResolution = "2K"
  /\ inst["current"].penWidth = 3
  /\ "A" \in inst["current"].gpuSprites
  /\ call.op = "drawGPULine"
  /\ outcome["current"].called

(***************************************************************************)
(* C7: after setPenColor(r, g, b) each stored channel equals               *)
(* clamp(input, 0, 255) / 255, so lies in [0, 1], alpha is exactly 1, and  *)
(* the call does not throw, whatever the state of the pipeline.            *)
(***************************************************************************)
Clamp255(x) == IF x < 0 THEN 0 ELSE IF x > 255 THEN 255 ELSE x

(* fraction f equals n / 255 and lies in [0, 1] *)
IsOver255(f, n) ==
  /\ f.den > 0
  /\ f.num * 255 = n * f.den
  /\ 0 <= f.num
  /\ f.num <= f.den

C7_PenColorClampedAndNormalized ==
  \A v \in Variants :
    (call.op = "setPenColor" /\ outcome[v].called) =>
      /\ ~outcome[v].threw
      /\ IsOver255(inst[v].penColor.r, Clamp255(call.args.R))
      /\ IsOver255(inst[v].penColor.g, Clamp255(call.args.G))
      /\ IsOver255(inst[v].penColor.b, Clamp255(call.args.B))
      /\ inst[v].penColor.a.num = inst[v].penColor.a.den

C7_Witness ==
  /\ call.op = "setPenColor"
  /\ call.args.R > 255
  /\ call.args.G < 0
  /\ outcome["older"].called
  /\ ~Ready(inst["older"])
  /\ inst["older"].penColor.g.num = 0
  /\ inst["older"].penColor.b = [num |-> 128, den |-> 255]

(***************************************************************************)
(* C8: after setPenWidth(w) the stored width is 1 when w < 1 and w when    *)
(* w >= 1; the pen width is at least 1 in every reachable state.           *)
(***************************************************************************)
C8_PenWidthAtLeastOne ==
  \A v \in Variants :
    /\ inst[v].penWidth >= 1
    /\ (call.op = "setPenWidth" /\ outcome[v].called) =>
         /\ ~outcome[v].threw
         /\ call.args.WIDTH < 1 => inst[v].penWidth = 1
         /\ call.args.WIDTH >= 1 => inst[v].penWidth = call.args.WIDTH

C8_Witness ==
  /\ call.op = "setPenWidth"
  /\ call.args.WIDTH < 0
  /\ outcome["current"].called
  /\ inst["current"].penWidth = 1
  /\ inst["current"].targetResolution = "720p"

(***************************************************************************)
(* C9: the flag registry is a set of sprite ids: a sprite is a member      *)
(* exactly when the last enable/disable block run for it was an enable,    *)
(* isGPUEnabled reports that membership, and a block run for one sprite    *)
(* leaves every other sprite's membership alone.                           *)
(***************************************************************************)
C9_FlagRegistryIsASet ==
  \A v \in Variants :
    inst[v].registered =>
      /\ \A id \in SpriteIds : (id \in inst[v].gpuSprites) = (flagLog[id] = "enable")
      /\ inst[v].gpuSprites \subseteq SpriteIds
      /\ call.op = "isGPUEnabled" =>
           outcome[v].ret = Bool(flagLog[call.args.target] = "enable")

C9_Witness ==
  /\ flagLog["A"] = "enable"
  /\ flagLog["B"] = "disable"
  /\ call.op = "isGPUEnabled"
  /\ call.args.target = "A"
  /\ outcome["current"].ret = Bool(TRUE)
  /\ "B" \notin inst["current"].gpuSprites

(***************************************************************************)
(* C10: in a Ready instance setResolution(name) leaves the surface fully   *)
(* transparent at the preset's dimensions, whatever was drawn before, and  *)
(* running it again with the same name changes nothing.                    *)
(***************************************************************************)
C10_SetResolutionIdempotent ==
  [][call'.op = "setResolution" =>
       \A v \in Variants :
         Ready(inst[v]) =>
           /\ ~outcome'[v].threw
           /\ SurfaceTransparent(inst'[v])
           /\ call'.args.QUALITY \in PresetNames =>
                /\ inst'[v].glCanvas.width = PresetWidth(call'.args.QUALITY)
                /\ inst'[v].glCanvas.height = PresetHeight(call'.args.QUALITY)
                /\ inst'[v].resolution = [width |-> PresetWidth(call'.args.QUALITY),
                                          height |-> PresetHeight(call'.args.QUALITY)]
           /\ (call.op = "setResolution" /\ call.args = call'.args) =>
                inst'[v] = inst[v]]_vars

C10_Witness ==
  /\ call.op = "setResolution"
  /\ call.args.QUALITY = "4K"
  /\ Ready(inst["current"])
  /\ Ready(inst["older"])
  /\ inst["current"].glCanvas.width = 3840
  /\ SurfaceTransparent(inst["current"])
  /\ inst["current"].penWidth = 3

(***************************************************************************)
(* C11: after every drawGPULine, on every path (normal completion, early   *)
(* exit of an instance that is not ready, exception part-way through), no  *)
(* buffer created by the call is still alive: buffers never accumulate.    *)
(***************************************************************************)
LiveBuffers(s) == IF s.gl = NULL THEN 0 ELSE s.gl.buffers

C11_NoBuffersLeftAlive ==
  \A v \in Variants : LiveBuffers(inst[v]) = 0

C11_Witness ==
  /\ call.op = "drawGPULine"
  /\ Len(outcome["current"].draws) = 1
  /\ Len(outcome["older"].draws) = 1
  /\ inst["current"].glCanvas.lines # {}
  /\ LiveBuffers(inst["current"]) = 0
  /\ LiveBuffers(inst["older"]) = 0

(***************************************************************************)
(* C12: in a Ready instance each drawGPULine(x1, y1, x2, y2) issues        *)
(* exactly one LINES draw call of 2 vertices at (W/2 + x1, H/2 - y1) and   *)
(* (W/2 + x2, H/2 - y2), W and H being the Resolution the latest           *)
(* setResolution put in force, both vertices in the pen colour, with the   *)
(* pen width as line width.                                                *)
(***************************************************************************)
ExpectedVertices(name, a) ==
  <<PresetWidth(name) \div 2 + a.X1, PresetHeight(name) \div 2 - a.Y1,
    PresetWidth(name) \div 2 + a.X2, PresetHeight(name) \div 2 - a.Y2>>

PenColorVector(s) == <<s.penColor.r, s.penColor.g, s.penColor.b, s.penColor.a>>

OneLineDrawn(v) ==
  /\ ~outcome[v].threw
  /\ Len(outcome[v].draws) = 1
  /\ outcome[v].draws[1].mode = "LINES"
  /\ outcome[v].draws[1].first = 0
  /\ outcome[v].draws[1].count = 2
  /\ outcome[v].draws[1].vertices = ExpectedVertices(inst[v].targetResolution, call.args)
  /\ outcome[v].draws[1].colors = <<PenColorVector(inst[v]), PenColorVector(inst[v])>>
  /\ outcome[v].draws[1].lineWidth = inst[v].penWidth

C12_DrawIssuesOneCenteredLine ==
  \A v \in Variants :
    (call.op = "drawGPULine" /\ Ready(inst[v])) => OneLineDrawn(v)

(* the same statement for every resolution name but the inherited ones *)
C12_ExceptInheritedNames ==
  \A v \in Variants :
    (/\ call.op = "drawGPULine"
     /\ Ready(inst[v])
     /\ inst[v].targetResolution \notin ObjectPrototypeKeys) => OneLineDrawn(v)

C12_Scenario4K ==
  /\ call.op = "drawGPULine"
  /\ call.args.X2 = 100
  /\ inst["current"].targetResolution = "4K"
  /\ Len(outcome["current"].draws) = 1
  /\ outcome["current"].draws[1].vertices = <<1920, 1080, 2020, 980>>

(***************************************************************************)
(* C13: the flag registry and the rendering state are independent: the     *)
(* flag blocks leave Resolution, surface, pen and readiness unchanged, the *)
(* rendering blocks leave the set of enabled sprites unchanged, and a      *)
(* drawGPULine draws the same whatever that set holds.                     *)
(***************************************************************************)
FlagOps == {"enableGPURendering", "disableGPURendering", "isGPUEnabled"}

RenderOps == {"setResolution", "setPenColor", "setPenWidth", "drawGPULine", "clearGPUCanvas"}

RenderingState(s) ==
  [resolution |-> s.resolution, glCanvas |-> s.glCanvas, gl |-> s.gl,
   penColor |-> s.penColor, penWidth |-> s.penWidth, ready |-> Ready(s)]

C13_FlagsAndRenderingIndependent ==
  [][\A v \in Variants :
       /\ call'.op \in FlagOps => RenderingState(inst'[v]) = RenderingState(inst[v])
       /\ call'.op \in RenderOps => inst'[v].gpuSprites = inst[v].gpuSprites
       /\ (call'.op = "drawGPULine" /\ outcome'[v].called) =>
            \A flagged \in SUBSET SpriteIds :
              drawGPULine(v, [inst[v] EXCEPT !.gpuSprites = flagged], call'.args) =
                [self |-> [inst'[v] EXCEPT !.gpuSprites = flagged],
                 threw |-> outcome'[v].threw, ret |-> outcome'[v].ret,
                 draws |-> outcome'[v].draws]]_vars

C13_Witness ==
  /\ call.op = "enableGPURendering"
  /\ call.args.target = "B"
  /\ inst["current"].gpuSprites = {"A", "B"}
  /\ Ready(inst["current"])
  /\ inst["current"].glCanvas.lines # {}
  /\ inst["current"].penWidth = 3
  /\ inst["current"].targetResolution = "720p"

(***************************************************************************)
(* C14: the pen colour changes only in setPenColor and the pen width only  *)
(* in setPenWidth (a resize does not reset the pen), and the two setters   *)
(* leave Resolution, surface dimensions and surface contents unchanged.    *)
(***************************************************************************)
C14_DrawStateChangedOnlyBySetters ==
  [][\A v \in Variants :
       /\ call'.op # "setPenColor" => inst'[v].penColor = inst[v].penColor
       /\ call'.op # "setPenWidth" => inst'[v].penWidth = inst[v].penWidth
       /\ call'.op \in {"setPenColor", "setPenWidth"} =>
            /\ inst'[v].resolution = inst[v].resolution
            /\ inst'[v].targetResolution = inst[v].targetResolution
            /\ inst'[v].glCanvas = inst[v].glCanvas]_vars

C14_Witness ==
  /\ call.op = "setResolution"
  /\ call.args.QUALITY = "2K"
  /\ outcome["current"].called
  /\ inst["current"].glCanvas # NULL
  /\ inst["current"].penWidth = 3
  /\ inst["current"].penColor.g = [num |-> 0, den |-> 1]
  /\ inst["current"].penColor.b = [num |-> 128, den |-> 255]

(***************************************************************************)
(* C15: the two variants are behaviourally equivalent: constructed in the  *)
(* same environment (context available or not, shaders compiled and linked *)
(* or not) and run on the same blocks, they have the same Resolution,      *)
(* surface, pen state and flag set, issue the same draw calls and throw or *)
(* return alike at every step; the identity transform changes nothing.     *)
(***************************************************************************)
Observable(s) ==
  [resolution |-> s.resolution, glCanvas |-> s.glCanvas,
   penColor |-> s.penColor, penWidth |-> s.penWidth, gpuSprites |-> s.gpuSprites,
   ready |-> Ready(s)]

(* a draw call without the program object and its transform uniform *)
DrawGeometry(d) ==
  [mode |-> d.mode, first |-> d.first, count |-> d.count, vertices |-> d.vertices,
   colors |-> d.colors, resolution |-> d.resolution, lineWidth |-> d.lineWidth]

ObservableOutcome(o) ==
  [threw |-> o.threw, ret |-> o.ret,
   draws |-> [i \in 1..Len(o.draws) |-> DrawGeometry(o.draws[i])]]

VariantsAgree ==
  /\ Observable(inst["current"]) = Observable(inst["older"])
  /\ ObservableOutcome(outcome["current"]) = ObservableOutcome(outcome["older"])

C15_VariantsEquivalent == env.document => VariantsAgree

(* the same statement for the environments that give a graphics context *)
C15_WithContext == env.webgl => VariantsAgree
====
